---- MODULE Spec2Model ----
(***************************************************************************)
(* EventRouter.processBatch driving the PluginManager, the DynamoDB       *)
(* dedup/store service and the SQS dead-letter queue.                      *)
(*                                                                         *)
(* Events are identified by their position in the batch (the router        *)
(* compares event objects by reference).  An absent id is the empty        *)
(* string: the router tests ids with !!e.id and e.id || e.name.            *)
(***************************************************************************)
EXTENDS Integers, Sequences, FiniteSets, TLC

\* ---------------------------------------------------------------- bounds
MaxBatch == 2

MaxRegs == 2
MaxInits == 2
MaxDestroys == 1
MaxTriggers == 2
MaxChunks == 3
MaxRetries == 2
MaxDetached == 2



\* ---------------------------------------------------------------- inputs
NoId == ""
Ids == {"a", "x"}
Names == {"x", "y"}
Keys == Ids \cup Names
\* The events a batch is drawn from: with and without id, one id-less event
\* whose name is another event's id.
Events == {[id |-> "a", name |-> "x"], [id |-> "x", name |-> "y"],
           [id |-> NoId, name |-> "x"]}
Batches == UNION {[1..n -> Events] : n \in 0..MaxBatch}
Idx == 1..MaxBatch

\* ------------------------------------------------- plugin descriptors
\* The plugins a caller may register.  filter "none" is the absent events
\* filter (matches every event name), "list" an array of names and "fn" a
\* predicate, which returns true on the names of events and may throw;
\* mayRaise tells whether the plugin's onEvent can raise.
PluginNames == {"A", "B", "S", "W", "N"}
\* the plugins without a predicate filter
ListPlugins == {"A", "B", "S"}

PluginOf(n) ==
  CASE n = "A" -> [name |-> "A", mode |-> "async", filter |-> "list", events |-> {"y"},
                   strategy |-> "none", onEvent |-> TRUE, onError |-> TRUE, mayRaise |-> TRUE]
    [] n = "B" -> [name |-> "B", mode |-> "async", filter |-> "none", events |-> {},
                   strategy |-> "none", onEvent |-> TRUE, onError |-> FALSE, mayRaise |-> FALSE]
    [] n = "S" -> [name |-> "S", mode |-> "sync", filter |-> "list", events |-> {"x", "y"},
                   strategy |-> "none", onEvent |-> TRUE, onError |-> FALSE, mayRaise |-> TRUE]
    [] n = "W" -> [name |-> "W", mode |-> "sync", filter |-> "fn", events |-> {"x"},
                   strategy |-> "worker", onEvent |-> TRUE, onError |-> FALSE, mayRaise |-> TRUE]
    [] n = "N" -> [name |-> "N", mode |-> "none", filter |-> "list", events |-> {"x", "y"},
                   strategy |-> "none", onEvent |-> TRUE, onError |-> FALSE, mayRaise |-> FALSE]

VARIABLES
  plugins,       \* PluginManager.plugins: registered names in insertion order
  initialized,   \* PluginManager.initialized
  dlqUrl,        \* EventRouterConfig.dlqUrl is configured
  table,         \* event ids held by the events table
  pc,            \* position of the current processBatch call
  second,        \* the current call repeats the previous call's batch
  prev,          \* the previous call: [returned, stored]
  events,        \* the batch passed to the current processBatch call
  dedup,         \* batchCheckDuplicates call: [st, ids, dups, complete]
  uniqueEvents,  \* batchDeduplication's result (positions in events)
  groups,        \* groupPluginsByMode's result: per mode, position -> plugin names
  trigA,         \* Phase A: state of the triggerEvent call of each position
  trigB,         \* Phase B: state of the triggerEvent call of each position
  hooks,         \* state of the onEvent invocation of each (position, plugin)
  onErrors,      \* the (position, plugin) pairs whose onError was invoked
  asyncErrors,   \* executeAsyncPlugins' errors map: key -> position (0 absent)
  syncErrors,    \* executeSyncPlugins' errors map: key -> position (0 absent)
  failedEvents,  \* extractFailedEvents' result (positions)
  store,         \* state of the storeEvent call of each position
  dlq,           \* state of the sendMessageBatch call
  dlqEntries,    \* the Entries of the sendMessageBatch call
  log,           \* messages logged by the current processBatch call
  thrown,        \* the error the current processBatch call rejected with
  records,       \* consumer handler: event.Records of the current invocation
  response,      \* consumer handler: the batchItemFailures it returned
  regs,          \* manager: the register / registerAll calls made, in order
  inits,         \* manager: the init() calls made, in order
  destroys,      \* manager: the destroy() calls made, in order
  triggers,      \* manager: the trigger* calls made, in order
  life,          \* manager: per plugin object, the hook invocations so far
  bcd,           \* dynamodb service: the batchCheckDuplicates call
  http,          \* HttpClient: the request call
  detached       \* dispatches started by context.emit that are running

vars == <<plugins, initialized, dlqUrl, table, pc, second, prev, events, dedup,
          uniqueEvents, groups, trigA, trigB, hooks, onErrors, asyncErrors, syncErrors,
          failedEvents, store, dlq, dlqEntries, log, thrown, records, response,
          regs, inits, destroys, triggers, life, bcd, http, detached>>

svcVars == <<bcd, http, detached>>
mgrVars == <<plugins, initialized>>
runVars == <<events, dedup, uniqueEvents, groups, trigA, trigB, hooks, onErrors,
             asyncErrors, syncErrors, failedEvents, store, dlq, dlqEntries, log, thrown>>
handlerVars == <<records, response>>
pmVars == <<regs, inits, destroys, triggers, life>>
coreVars == <<dlqUrl, table, pc, second, prev, runVars, handlerVars>>
routerVars == <<coreVars, svcVars>>

\* ------------------------------------------------------------- helpers
Range(s) == {s[i] : i \in DOMAIN s}
Positions == 1..Len(events)
AllPositions == [i \in 1..Len(events) |-> i]
HasId(e) == e.id # NoId
\* event.id || event.name
Key(e) == IF e.id # NoId THEN e.id ELSE e.name
\* the last element of sequence s that is in set S (0 when there is none)
LastIn(s, S) ==
  LET J == {j \in DOMAIN s : s[j] \in S}
  IN IF J = {} THEN 0 ELSE s[CHOOSE j \in J : \A k \in J : k <= j]

\* JSON.stringify(event): a key whose value is undefined is left out
JsonStringify(e) == IF HasId(e) THEN [id |-> e.id, name |-> e.name] ELSE [name |-> e.name]
\* JSON.parse of an object text: a key that is left out reads as undefined
JsonParse(text) == IF "id" \in DOMAIN text THEN text ELSE [id |-> NoId, name |-> text.name]

NoCalls == [i \in Idx |-> "none"]
NoHooks == [i \in Idx |-> [n \in PluginNames |-> "none"]]
NoGroups == [async |-> [i \in Idx |-> <<>>], inline |-> [i \in Idx |-> <<>>],
             worker |-> [i \in Idx |-> <<>>]]
NoErrors == [k \in Keys |-> 0]
NoDedup == [st |-> "none", ids |-> <<>>, dups |-> {}, complete |-> FALSE]
NoPrev == [returned |-> FALSE, stored |-> {}]
NoError == [src |-> "none", plugin |-> "", pos |-> 0]
NoResponse == [st |-> "none", batchItemFailures |-> <<>>]

\* mutant: a plugin without events filter handles nothing
shouldHandleEventListOnly(p, eventName) == eventName \in p.events

\* PluginManager.shouldHandleEvent
shouldHandleEvent(p, eventName) ==
  IF p.filter = "none" THEN TRUE ELSE eventName \in p.events

\* PluginManager.listPlugins
listPlugins == plugins

\* ------------------------------------------------------- PluginManager
\* The order of the list the caller registers from (plugins/config.ts)
ConfigOrder == <<"A", "B", "S", "W", "N">>
ConfigPos(n) == CHOOSE j \in DOMAIN ConfigOrder : ConfigOrder[j] = n

\* register(plugin): a name already registered raises and changes nothing.
\* The caller registers before the first batch, in the order of its list.
Register(n) ==
  /\ pc = "idle"
  /\ response.st = "none"
  /\ n \notin Range(plugins)
  /\ \A m \in Range(plugins) : ConfigPos(m) < ConfigPos(n)
  /\ plugins' = Append(plugins, n)
  /\ UNCHANGED <<initialized, dlqUrl, handlerVars, pmVars, svcVars, table, pc, second, prev, runVars>>

\* The router reads the manager's registry and its initialized flag only when
\* it groups and when a phase starts its triggerEvent calls, so init() and
\* destroy() calls of other tasks are placed before the first call and while
\* Phase A is awaited (between the two reads).
MgrTurn == pc \in {"idle", "phaseA"}

\* init(): sets initialized once the init hooks have completed; a call on an
\* initialized manager only warns.
MgrInit ==
  /\ MgrTurn
  /\ ~initialized
  /\ initialized' = TRUE
  /\ UNCHANGED <<plugins, dlqUrl, handlerVars, pmVars, svcVars, table, pc, second, prev, runVars>>

\* destroy(): returns at once when not initialized; otherwise clears the
\* registry and resets initialized.
Destroy ==
  /\ MgrTurn
  /\ initialized
  /\ plugins' = <<>>
  /\ initialized' = FALSE
  /\ UNCHANGED <<dlqUrl, handlerVars, pmVars, svcVars, table, pc, second, prev, runVars>>

\* mutant: only the first matching plugin of the list is a target
HookTargetsFirstOnly(eventName, pluginNames) ==
  LET J == {j \in DOMAIN pluginNames :
              /\ pluginNames[j] \in Range(plugins)
              /\ shouldHandleEvent(PluginOf(pluginNames[j]), eventName)}
  IN IF J = {} THEN {} ELSE {pluginNames[CHOOSE j \in J : \A k \in J : j <= k]}

\* executeHook's target list for triggerEvent(event, pluginNames):
\* pluginNames.map(name => plugins.get(name)).filter(Boolean), then
\* shouldHandleEvent, then the plugins that define the hook.
HookTargets(eventName, pluginNames) ==
  {n \in Range(pluginNames) :
     /\ n \in Range(plugins)
     /\ shouldHandleEvent(PluginOf(n), eventName)
     /\ PluginOf(n).onEvent}

\* mutant: executeHook has no precondition
TriggerRaisesNever == FALSE

\* executeHook's precondition: it raises when the manager is not initialized.
TriggerRaises == ~initialized

\* The hook states after the triggerEvent calls of one phase have started:
\* every target's onEvent is invoked before the call first suspends.
StartHooks(grp) ==
  [i \in Idx |-> [n \in PluginNames |->
     IF /\ i \in Range(uniqueEvents)
        /\ grp[i] # <<>>
        /\ ~TriggerRaises
        /\ n \in HookTargets(events[i].name, grp[i])
     THEN "running" ELSE hooks[i][n]]]

\* The triggerEvent call states after one phase has started.
StartCalls(grp) ==
  [i \in Idx |->
     IF i \in Range(uniqueEvents) /\ grp[i] # <<>>
     THEN (IF TriggerRaises THEN "raised" ELSE "running")
     ELSE "none"]

\* errors.set(event.id || event.name, errorObj) for every call that raised,
\* in the order of the groups: the last write of a key stays.
ErrorsOf(calls) ==
  [k \in Keys |->
     LastIn(uniqueEvents, {i \in Positions : calls[i] = "raised" /\ Key(events[i]) = k})]

\* Promise.allSettled over the targets: a triggerEvent call returns as soon as
\* every hook it started has settled (at once when it started none).
SettleCalls(calls, grp, hk) ==
  [i \in Idx |->
     IF calls[i] = "running" /\ \A n \in Range(grp[i]) : hk[i][n] # "running"
     THEN "returned" ELSE calls[i]]

\* One onEvent invocation settles; h is the new hook state.
HookSettles(i, n, h) ==
  /\ pc \in {"phaseA", "phaseB"}
  /\ hooks[i][n] = "running"
  /\ LET hk == [hooks EXCEPT ![i][n] = h]
     IN /\ hooks' = hk
        /\ IF pc = "phaseA"
           THEN /\ trigA' = SettleCalls(trigA, groups.async, hk)
                /\ UNCHANGED trigB
           ELSE /\ trigB' = SettleCalls(trigB, groups.inline, hk)
                /\ UNCHANGED trigA
  /\ UNCHANGED <<mgrVars, dlqUrl, handlerVars, pmVars, svcVars, thrown, table, pc, second, prev, events, dedup, uniqueEvents,
                 groups, asyncErrors, syncErrors, failedEvents, store, dlq, dlqEntries, log>>

\* A plugin's onEvent returns.
HookReturn(i, n) ==
  /\ HookSettles(i, n, "ok")
  /\ UNCHANGED onErrors

\* A plugin's onEvent raises: executeHook logs it and calls the plugin's onError
\* when it is defined; the error goes no further.
HookRaise(i, n) ==
  /\ PluginOf(n).mayRaise
  /\ HookSettles(i, n, "raised")
  /\ onErrors' = IF PluginOf(n).onError THEN onErrors \cup {<<i, n>>} ELSE onErrors

\* ---------------------------------------------------------- EventRouter
Logged(tag) == \E m \in log : m.tag = tag
Msg(tag, n) == [tag |-> tag, n |-> n]

\* batchDeduplication: events.filter(e => !!e.id), events.filter(e => !e.id)
eventsWithId == SelectSeq(AllPositions, LAMBDA i : HasId(events[i]))
eventsWithoutId == SelectSeq(AllPositions, LAMBDA i : ~HasId(events[i]))
eventIds == [j \in 1..Len(eventsWithId) |-> events[eventsWithId[j]].id]

\* mutant: the duplicate ids are not filtered out
UniqueOfNoFilter(duplicateIds) == eventsWithId \o eventsWithoutId

\* batchDeduplication's result when batchCheckDuplicates returned duplicateIds
UniqueOf(duplicateIds) ==
  SelectSeq(eventsWithId, LAMBDA i : events[i].id \notin duplicateIds) \o eventsWithoutId

\* mutant: the fallback keeps only the events without id
DedupFallbackWithoutId == eventsWithoutId

\* batchDeduplication's result when batchCheckDuplicates raised
DedupFallback == AllPositions

\* mutant: the execution strategy is not looked at
PluginsForAnyStrategy(i, mode, worker) ==
  SelectSeq(listPlugins, LAMBDA n :
     /\ shouldHandleEvent(PluginOf(n), events[i].name)
     /\ PluginOf(n).mode = mode)

\* groupPluginsByMode: the names of the registered plugins whose events filter
\* matches the event and whose mode and strategy select the list.
PluginsFor(i, mode, worker) ==
  SelectSeq(listPlugins, LAMBDA n :
     /\ shouldHandleEvent(PluginOf(n), events[i].name)
     /\ PluginOf(n).mode = mode
     /\ (mode = "sync" => ((PluginOf(n).strategy = "worker") <=> worker)))

groupPluginsByMode ==
  [async  |-> [i \in Idx |-> IF i \in Range(uniqueEvents)
                             THEN PluginsFor(i, "async", FALSE) ELSE <<>>],
   inline |-> [i \in Idx |-> IF i \in Range(uniqueEvents)
                             THEN PluginsFor(i, "sync", FALSE) ELSE <<>>],
   worker |-> [i \in Idx |-> IF i \in Range(uniqueEvents)
                             THEN PluginsFor(i, "sync", TRUE) ELSE <<>>]]

\* extractFailedEvents over the two errors maps
IsFailed(i, aErr, sErr) == aErr[Key(events[i])] # 0 \/ sErr[Key(events[i])] # 0
extractFailedEvents(aErr, sErr) ==
  SelectSeq(uniqueEvents, LAMBDA i : IsFailed(i, aErr, sErr))

\* uniqueEvents.filter(e => !failedEvents.includes(e))
successfulEvents(failed) == SelectSeq(uniqueEvents, LAMBDA i : i \notin Range(failed))

\* mutant: every unique event with id is stored, failed or not
StoreTargetsAll(succ) == SelectSeq(uniqueEvents, LAMBDA i : HasId(events[i]))

\* mutant: the events without id are stored too
StoreTargetsNoFilter(succ) == succ

\* batchStoreEvents: events.filter(e => !!e.id)
StoreTargets(succ) == SelectSeq(succ, LAMBDA i : HasId(events[i]))

\* mutant: an error of Phase A takes precedence
AllErrorsAsyncFirst(k) ==
  IF asyncErrors[k] # 0 THEN [phase |-> "A", pos |-> asyncErrors[k]]
  ELSE IF syncErrors[k] # 0 THEN [phase |-> "B", pos |-> syncErrors[k]]
  ELSE [phase |-> "unknown", pos |-> 0]

\* new Map([...asyncResults.errors, ...syncResults.errors]).get(key): the
\* dispatch whose error the envelope carries
AllErrors(k) ==
  IF syncErrors[k] # 0 THEN [phase |-> "B", pos |-> syncErrors[k]]
  ELSE IF asyncErrors[k] # 0 THEN [phase |-> "A", pos |-> asyncErrors[k]]
  ELSE [phase |-> "unknown", pos |-> 0]

\* mutant: every entry carries the same Id
DlqEntriesSameId(failed) ==
  [j \in 1..Len(failed) |->
     [Id |-> 0, pos |-> failed[j], event |-> JsonStringify(events[failed[j]]),
      error |-> AllErrors(Key(events[failed[j]]))]]

\* sendToDLQ: failedEvents.map((event, idx) => ({Id: `${idx}`, MessageBody}));
\* event is the event's text in the MessageBody, pos the failed event it was
\* built from.
DlqEntriesOf(failed) ==
  [j \in 1..Len(failed) |->
     [Id |-> j - 1, pos |-> failed[j], event |-> JsonStringify(events[failed[j]]),
      error |-> AllErrors(Key(events[failed[j]]))]]

FreshRun(b) ==
  /\ events' = b
  /\ dedup' = NoDedup
  /\ uniqueEvents' = <<>>
  /\ groups' = NoGroups
  /\ trigA' = NoCalls
  /\ trigB' = NoCalls
  /\ hooks' = NoHooks
  /\ onErrors' = {}
  /\ asyncErrors' = NoErrors
  /\ syncErrors' = NoErrors
  /\ failedEvents' = <<>>
  /\ store' = NoCalls
  /\ dlq' = "none"
  /\ dlqEntries' = <<>>
  /\ thrown' = NoError

\* processBatch up to its first await: the empty batch returns at once; a
\* batch without ids skips batchCheckDuplicates.
Begin(b) ==
  /\ FreshRun(b)
  /\ IF Len(b) = 0
     THEN /\ log' = {Msg("empty", 0)}
          /\ pc' = "returned"
     ELSE /\ log' = {Msg("processing", Len(b))}
          /\ pc' = "dedup"

\* processBatch(events), first call
Start(b) ==
  /\ pc = "idle"
  /\ Begin(b)
  /\ UNCHANGED <<mgrVars, dlqUrl, handlerVars, pmVars, svcVars, table, second, prev>>

\* processBatch(events) called again with the batch of the call that returned
Repeat ==
  /\ pc = "returned"
  /\ ~second
  /\ second' = TRUE
  /\ prev' = [returned |-> TRUE, stored |-> {i \in Positions : store[i] = "ok"}]
  /\ Begin(events)
  /\ UNCHANGED <<mgrVars, dlqUrl, handlerVars, pmVars, svcVars, table>>

AfterDedup(unique, msgs) ==
  /\ uniqueEvents' = unique
  /\ IF unique = <<>>
     THEN /\ log' = log \cup msgs \cup {Msg("afterDedup", 0), Msg("allDuplicates", 0)}
          /\ pc' = "returned"
     ELSE /\ log' = log \cup msgs \cup {Msg("afterDedup", Len(unique))}
          /\ pc' = "group"

\* batchDeduplication without an event with id: no batchCheckDuplicates call
DedupSkip ==
  /\ pc = "dedup"
  /\ eventsWithId = <<>>
  /\ AfterDedup(eventsWithoutId, {})
  /\ UNCHANGED <<mgrVars, dlqUrl, handlerVars, pmVars, svcVars, thrown, table, second, prev, events, dedup, groups, trigA, trigB,
                 hooks, onErrors, asyncErrors, syncErrors, failedEvents, store, dlq,
                 dlqEntries>>

\* batchCheckDuplicates returns the ids it found in the table; an id whose
\* lookup failed is not reported.
DedupReturn(D) ==
  /\ pc = "dedup"
  /\ eventsWithId # <<>>
  /\ D \subseteq (Range(eventIds) \cap table)
  /\ dedup' = [st |-> "returned", ids |-> eventIds, dups |-> D,
               complete |-> (D = Range(eventIds) \cap table)]
  /\ AfterDedup(UniqueOf(D), IF D # {} THEN {Msg("duplicates", Cardinality(D))} ELSE {})
  /\ UNCHANGED <<mgrVars, dlqUrl, handlerVars, pmVars, svcVars, thrown, table, second, prev, events, groups, trigA, trigB,
                 hooks, onErrors, asyncErrors, syncErrors, failedEvents, store, dlq,
                 dlqEntries>>

\* batchCheckDuplicates raises (the service as the router's tests replace it;
\* the shipped one catches its own errors): log and go on with every event
DedupRaise ==
  /\ pc = "dedup"
  /\ eventsWithId # <<>>
  /\ dedup' = [st |-> "raised", ids |-> eventIds, dups |-> {}, complete |-> FALSE]
  /\ AfterDedup(DedupFallback, {Msg("dedupFailed", 0)})
  /\ UNCHANGED <<mgrVars, dlqUrl, handlerVars, pmVars, svcVars, thrown, table, second, prev, events, groups, trigA, trigB,
                 hooks, onErrors, asyncErrors, syncErrors, failedEvents, store, dlq,
                 dlqEntries>>

\* groupPluginsByMode, then executeAsyncPlugins up to its await: every
\* triggerEvent call of Phase A is started.
StartPhaseA ==
  /\ pc = "group"
  /\ LET g == groupPluginsByMode
         calls == StartCalls(g.async)
     IN /\ groups' = g
        /\ trigA' = SettleCalls(calls, g.async, StartHooks(g.async))
        /\ hooks' = StartHooks(g.async)
        /\ asyncErrors' = ErrorsOf(calls)
        /\ log' = IF \E i \in Idx : g.async[i] # <<>>
                  THEN log \cup {Msg("asyncExecuted", Cardinality({i \in Idx : g.async[i] # <<>>}))}
                  ELSE log
  /\ pc' = "phaseA"
  /\ UNCHANGED <<mgrVars, dlqUrl, handlerVars, pmVars, svcVars, thrown, table, second, prev, events, dedup, uniqueEvents, trigB,
                 onErrors, syncErrors, failedEvents, store, dlq, dlqEntries>>

\* groupPluginsByMode evaluates plugin.events(event.name) of a plugin whose
\* filter is a predicate, and the predicate throws: nothing in
\* groupPluginsByMode catches, so processBatch logs the critical error and
\* rejects with that error.  Any (event, plugin) evaluation may be the one.
GroupRaise(i, n) ==
  /\ pc = "group"
  /\ i \in Range(uniqueEvents)
  /\ n \in Range(listPlugins)
  /\ PluginOf(n).filter = "fn"
  /\ thrown' = [src |-> "events", plugin |-> n, pos |-> i]
  /\ log' = log \cup {Msg("critical", 0)}
  /\ pc' = "raised"
  /\ UNCHANGED <<mgrVars, dlqUrl, handlerVars, pmVars, svcVars, table, second, prev, events, dedup,
                 uniqueEvents, groups, trigA, trigB, hooks, onErrors, asyncErrors,
                 syncErrors, failedEvents, store, dlq, dlqEntries>>

\* mutant: Phase B does not wait for Phase A
PhaseASettledNoWait == TRUE

\* await Promise.allSettled(...) of executeAsyncPlugins
PhaseASettled == \A i \in Idx : trigA[i] # "running"

\* mutant: batchStoreEvents does not wait for Phase B
PhaseBSettledNoWait == TRUE

\* await Promise.allSettled(...) of executeSyncPlugins
PhaseBSettled == \A i \in Idx : trigB[i] # "running"

\* await Promise.allSettled(...) of batchStoreEvents
StoreSettled == \A i \in Idx : store[i] # "running"

\* Phase A has settled; executeSyncPlugins warns about the worker groups and
\* starts every triggerEvent call of Phase B.
StartPhaseB ==
  /\ pc = "phaseA"
  /\ PhaseASettled
  /\ LET calls == StartCalls(groups.inline)
     IN /\ trigB' = SettleCalls(calls, groups.inline, StartHooks(groups.inline))
        /\ hooks' = StartHooks(groups.inline)
        /\ syncErrors' = ErrorsOf(calls)
  /\ log' = IF \E i \in Idx : groups.worker[i] # <<>>
            THEN log \cup {Msg("workerNotImplemented",
                               Cardinality({i \in Idx : groups.worker[i] # <<>>}))}
            ELSE log
  /\ pc' = "phaseB"
  /\ UNCHANGED <<mgrVars, dlqUrl, handlerVars, pmVars, svcVars, thrown, table, second, prev, events, dedup, uniqueEvents, groups,
                 trigA, onErrors, asyncErrors, failedEvents, store, dlq, dlqEntries>>

\* Phase B has settled: extractFailedEvents, then batchStoreEvents starts one
\* storeEvent call per succeeded event with id.
StartStore ==
  /\ pc = "phaseB"
  /\ PhaseBSettled
  /\ LET failed == extractFailedEvents(asyncErrors, syncErrors)
         targets == StoreTargets(successfulEvents(failed))
     IN /\ failedEvents' = failed
        /\ store' = [i \in Idx |-> IF i \in Range(targets) THEN "running" ELSE "none"]
  /\ pc' = "store"
  /\ UNCHANGED <<mgrVars, dlqUrl, handlerVars, pmVars, svcVars, thrown, table, second, prev, events, dedup, uniqueEvents, groups,
                 trigA, trigB, hooks, onErrors, asyncErrors, syncErrors, dlq, dlqEntries,
                 log>>

\* mutant: the record is keyed by the event's name
StoredKeyName(i) == events[i].name

\* storeEvent's key: eventId: event.id
StoredKey(i) == events[i].id

\* storeEvent(eventId) writes the record
StoreOk(i) ==
  /\ store[i] = "running"
  /\ store' = [store EXCEPT ![i] = "ok"]
  /\ table' = table \cup {StoredKey(i)}
  /\ UNCHANGED <<mgrVars, dlqUrl, handlerVars, pmVars, svcVars, thrown, pc, second, prev, events, dedup, uniqueEvents, groups,
                 trigA, trigB, hooks, onErrors, asyncErrors, syncErrors, failedEvents,
                 dlq, dlqEntries, log>>

\* mutant: a rejected storeEvent call makes processBatch reject
StoreFailRethrow(i) ==
  /\ store[i] = "running"
  /\ store' = [store EXCEPT ![i] = "failed"]
  /\ thrown' = [src |-> "store", plugin |-> "", pos |-> i]
  /\ log' = log \cup {Msg("critical", 0)}
  /\ pc' = "raised"
  /\ UNCHANGED <<mgrVars, dlqUrl, handlerVars, pmVars, svcVars, table, second, prev, events, dedup,
                 uniqueEvents, groups, trigA, trigB, hooks, onErrors, asyncErrors,
                 syncErrors, failedEvents, dlq, dlqEntries>>

\* storeEvent(eventId) rejects
StoreFail(i) ==
  /\ store[i] = "running"
  /\ store' = [store EXCEPT ![i] = "failed"]
  /\ UNCHANGED <<mgrVars, dlqUrl, handlerVars, pmVars, svcVars, thrown, table, pc, second, prev, events, dedup, uniqueEvents,
                 groups, trigA, trigB, hooks, onErrors, asyncErrors, syncErrors,
                 failedEvents, dlq, dlqEntries, log>>

\* mutant: the storage failures are not counted
StoreLogOnlyInfo ==
  LET calls == {i \in Idx : store[i] # "none"}
  IN IF calls = {} THEN {} ELSE {Msg("stored", Cardinality(calls))}

\* batchStoreEvents' log line
StoreLog ==
  LET calls == {i \in Idx : store[i] # "none"}
      failed == {i \in Idx : store[i] = "failed"}
  IN IF calls = {} THEN {}
     ELSE IF failed # {} THEN {Msg("storeFailed", Cardinality(failed))}
     ELSE {Msg("stored", Cardinality(calls))}

Completed == {Msg("completed", Len(failedEvents))}

\* mutant: sendToDLQ sends whether or not a dlqUrl is configured
DlqConfiguredAlways == TRUE

\* sendToDLQ's guard: if (!this.config.dlqUrl) warn and return
DlqConfigured == dlqUrl

\* batchStoreEvents has settled; with failed events sendToDLQ runs: without
\* dlqUrl it warns that the events are lost, otherwise it sends one batch.
FinishStore ==
  /\ pc = "store"
  /\ StoreSettled
  /\ IF failedEvents = <<>>
     THEN /\ log' = log \cup StoreLog \cup Completed
          /\ pc' = "returned"
          /\ UNCHANGED <<dlq, dlqEntries>>
     ELSE IF ~DlqConfigured
     THEN /\ log' = log \cup StoreLog \cup {Msg("eventsLost", Len(failedEvents))} \cup Completed
          /\ pc' = "returned"
          /\ UNCHANGED <<dlq, dlqEntries>>
     ELSE /\ log' = log \cup StoreLog
          /\ dlqEntries' = DlqEntriesOf(failedEvents)
          /\ dlq' = "sending"
          /\ pc' = "dlq"
  /\ UNCHANGED <<mgrVars, dlqUrl, handlerVars, pmVars, svcVars, thrown, table, second, prev, events, dedup, uniqueEvents, groups,
                 trigA, trigB, hooks, onErrors, asyncErrors, syncErrors, failedEvents,
                 store>>

\* sendMessageBatch resolves
DlqOk ==
  /\ pc = "dlq"
  /\ dlq' = "sent"
  /\ log' = log \cup {Msg("dlqSent", Len(failedEvents))} \cup Completed
  /\ pc' = "returned"
  /\ UNCHANGED <<mgrVars, dlqUrl, handlerVars, pmVars, svcVars, thrown, table, second, prev, events, dedup, uniqueEvents, groups,
                 trigA, trigB, hooks, onErrors, asyncErrors, syncErrors, failedEvents,
                 store, dlqEntries>>

\* mutant: the DLQ send error is re-thrown
DlqFailRethrow ==
  /\ pc = "dlq"
  /\ dlq' = "sendFailed"
  /\ log' = log \cup {Msg("dlqSendFailed", 0), Msg("critical", 0)}
  /\ thrown' = [src |-> "dlq", plugin |-> "", pos |-> 0]
  /\ pc' = "raised"
  /\ UNCHANGED <<mgrVars, dlqUrl, handlerVars, pmVars, svcVars, table, second, prev, events, dedup,
                 uniqueEvents, groups, trigA, trigB, hooks, onErrors, asyncErrors,
                 syncErrors, failedEvents, store, dlqEntries>>

\* sendMessageBatch rejects: logged, not re-thrown
DlqFail ==
  /\ pc = "dlq"
  /\ dlq' = "sendFailed"
  /\ log' = log \cup {Msg("dlqSendFailed", 0)} \cup Completed
  /\ pc' = "returned"
  /\ UNCHANGED <<mgrVars, dlqUrl, handlerVars, pmVars, svcVars, thrown, table, second, prev, events, dedup, uniqueEvents, groups,
                 trigA, trigB, hooks, onErrors, asyncErrors, syncErrors, failedEvents,
                 store, dlqEntries>>

\* ------------------------------------------------------ consumer handler
\* The body of a queue message: the JSON text of an event, or a text that
\* JSON.parse rejects.
Bodies == {[kind |-> "json", text |-> JsonStringify(e)] : e \in Events}
            \cup {[kind |-> "text", text |-> [name |-> "invalid json {"]]}
\* event.Records: the messageId of a message is its position
RecordLists ==
  UNION {{[r \in 1..n |-> [messageId |-> r, body |-> f[r]]] : f \in [1..n -> Bodies]}
           : n \in 0..MaxBatch}

\* JSON.parse(record.body) returns a value or throws
Parses(body) == body.kind = "json"

\* the records whose body parsed, in order
ValidRecords(recs) == SelectSeq([r \in 1..Len(recs) |-> r], LAMBDA r : Parses(recs[r].body))
\* the events array the handler passes to processBatch
ParsedEvents(recs) ==
  [j \in 1..Len(ValidRecords(recs)) |-> JsonParse(recs[ValidRecords(recs)[j]].body.text)]
\* messageIdToEvent: the position in events of the event of message r
EventOf(r) == CHOOSE j \in 1..Len(ValidRecords(records)) : ValidRecords(records)[j] = r

\* event.Records.map(record => ({itemIdentifier: record.messageId}))
AllMessages == [r \in 1..Len(records) |-> records[r].messageId]

\* mutant: a critical error acknowledges the batch
BatchItemFailuresNone == <<>>

\* the handler's result once processBatch has settled
BatchItemFailures == IF pc = "raised" THEN AllMessages ELSE <<>>

\* handler(event) up to its first suspension on processBatch: initialize()
\* runs pluginManager.init() on the first invocation, the records are
\* parsed, and without a valid event the handler returns at once.
HandlerStart(recs) ==
  /\ pc = "idle"
  /\ response.st = "none"
  /\ initialized' = TRUE
  /\ records' = recs
  /\ IF Len(ParsedEvents(recs)) = 0
     THEN /\ response' = [st |-> "returned", batchItemFailures |-> <<>>]
          /\ UNCHANGED <<pc, runVars>>
     ELSE /\ response' = [st |-> "pending", batchItemFailures |-> <<>>]
          /\ Begin(ParsedEvents(recs))
  /\ UNCHANGED <<plugins, dlqUrl, pmVars, svcVars, table, second, prev>>

\* processBatch has settled: the handler returns its batchItemFailures
HandlerReturn ==
  /\ response.st = "pending"
  /\ pc \in {"returned", "raised"}
  /\ response' = [st |-> "returned", batchItemFailures |-> BatchItemFailures]
  /\ UNCHANGED <<mgrVars, dlqUrl, pmVars, svcVars, table, pc, second, prev, runVars, records>>

\* ------------------------------------------ PluginManager, step by step
\* The plugin objects a caller may hand to the manager: P1 and P2 carry the
\* same name.  A field that is TRUE is a hook the plugin defines.
Objects == {"P1", "P2", "Q", "T"}

ObjectOf(o) ==
  CASE o = "P1" -> [name |-> "p", filter |-> "list", events |-> {"x"},
                    init |-> TRUE, destroy |-> TRUE, onEvent |-> TRUE, onReplay |-> FALSE,
                    onDLQ |-> FALSE, onError |-> TRUE, emits |-> {"x"},
                    initRaises |-> FALSE, destroyRaises |-> TRUE, hookRaises |-> TRUE,
                    predicateRaises |-> FALSE]
    [] o = "P2" -> [name |-> "p", filter |-> "none", events |-> {},
                    init |-> FALSE, destroy |-> FALSE, onEvent |-> TRUE, onReplay |-> TRUE,
                    onDLQ |-> FALSE, onError |-> FALSE, emits |-> {},
                    initRaises |-> FALSE, destroyRaises |-> FALSE, hookRaises |-> FALSE,
                    predicateRaises |-> FALSE]
    [] o = "Q"  -> [name |-> "q", filter |-> "fn", events |-> {"y"},
                    init |-> TRUE, destroy |-> TRUE, onEvent |-> FALSE, onReplay |-> FALSE,
                    onDLQ |-> TRUE, onError |-> FALSE, emits |-> {},
                    initRaises |-> TRUE, destroyRaises |-> FALSE, hookRaises |-> FALSE,
                    predicateRaises |-> FALSE]
    [] o = "T"  -> [name |-> "t", filter |-> "fn", events |-> {"x"},
                    init |-> FALSE, destroy |-> FALSE, onEvent |-> TRUE, onReplay |-> FALSE,
                    onDLQ |-> FALSE, onError |-> TRUE, emits |-> {},
                    initRaises |-> FALSE, destroyRaises |-> FALSE, hookRaises |-> FALSE,
                    predicateRaises |-> TRUE]

\* the lists a caller passes to registerAll (register(p) is the list <<p>>)
RegLists == {<<"P1">>, <<"Q">>, <<"P2", "Q">>, <<"P1", "P2", "Q">>}
\* the lists of a caller one of whose plugins has an events predicate that
\* may throw
ThrowingLists == {<<"P1">>, <<"T">>, <<"P1", "T">>}
\* the pluginNames argument of trigger*: absent, or a list that may name a
\* plugin twice or name no registered plugin
Absent == <<"absent">>
NamesArgs == {Absent, <<"p">>, <<"zz", "q">>, <<"p", "p">>}
HookNames == {"onEvent", "onReplay", "onDLQ"}
\* the dispatches the caller makes while the manager goes through its life
TriggerArgs == {<<"onEvent", "x">>, <<"onReplay", "y">>, <<"onDLQ", "y">>}

NoLife == [o \in Objects |-> [init |-> 0, destroy |-> 0, initOk |-> FALSE,
                               destroyStarted |-> FALSE]]
NoRegs == [n |-> 0, list |-> <<>>, raised |-> FALSE]

\* this.plugins.has(name)
Has(reg, name) == \E j \in DOMAIN reg : ObjectOf(reg[j]).name = name
\* this.plugins.get(name): the object registered under name
Get(reg, name) == reg[CHOOSE j \in DOMAIN reg : ObjectOf(reg[j]).name = name]

\* mutant: a second plugin of the same name replaces nothing and is added
RegisterEachNoCheck(reg, list) ==
  [registry |-> reg \o list, raised |-> FALSE]

\* plugins.forEach(p => this.register(p)): each plugin whose name is not yet
\* registered is added; the first one whose name is registered raises and
\* ends the loop.
RECURSIVE RegisterEach(_, _)
RegisterEach(reg, list) ==
  IF list = <<>> THEN [registry |-> reg, raised |-> FALSE]
  ELSE IF Has(reg, ObjectOf(Head(list)).name) THEN [registry |-> reg, raised |-> TRUE]
  ELSE RegisterEach(Append(reg, Head(list)), Tail(list))

\* register(plugin) / registerAll(plugins): synchronous.  A plugin that is
\* added starts a new life: none of its hooks has been invoked.
RegisterAll(list) ==
  /\ regs.n < MaxRegs
  /\ LET r == RegisterEach(plugins, list)
         added == Range(r.registry) \ Range(plugins)
     IN /\ plugins' = r.registry
        /\ regs' = [n |-> regs.n + 1, list |-> list, raised |-> r.raised]
        /\ life' = [o \in Objects |-> IF o \in added THEN NoLife[o] ELSE life[o]]
  /\ UNCHANGED <<initialized, routerVars, inits, destroys, triggers>>

\* mutant: init() does not look at the initialized flag
AlreadyInitializedNever == FALSE

\* init(): if (this.initialized) { warn; return }
AlreadyInitialized == initialized

\* init() up to its await: on an initialized manager it warns and returns;
\* otherwise the init hook of every registered plugin that defines one is
\* invoked, all before the call first suspends on Promise.all.
InitCall ==
  /\ Len(inits) < MaxInits
  /\ IF AlreadyInitialized
     THEN /\ inits' = Append(inits, [st |-> "returned", warned |-> TRUE,
                                     hooks |-> [o \in Objects |-> "none"]])
          /\ UNCHANGED life
     ELSE LET started == {o \in Range(plugins) : ObjectOf(o).init}
          IN /\ inits' = Append(inits, [st |-> "running", warned |-> FALSE,
                                        hooks |-> [o \in Objects |->
                                                     IF o \in started THEN "running" ELSE "none"]])
             /\ life' = [o \in Objects |->
                           IF o \in started THEN [life[o] EXCEPT !.init = @ + 1]
                           ELSE IF o \in Range(plugins) THEN [life[o] EXCEPT !.initOk = TRUE]
                           ELSE life[o]]
  /\ UNCHANGED <<plugins, initialized, routerVars, regs, destroys, triggers>>

\* Promise.all over the init hooks has settled: it rejects as soon as one hook
\* has failed and resolves when every hook has succeeded.
InitJoined(hk) ==
  \/ \E o \in Objects : hk[o] = "failed"
  \/ \A o \in Objects : hk[o] # "running"

\* the state of init call c after Promise.all has settled on hooks hk
InitOutcome(c, hk) ==
  IF inits[c].st # "running" \/ ~InitJoined(hk) THEN inits[c].st
  ELSE IF \E o \in Objects : hk[o] = "failed" THEN "raised"
  ELSE "returned"

\* One init hook of call c settles with h; when that settles Promise.all, the
\* call throws the hook's error, or sets initialized and returns.
InitHookSettles(c, o, h) ==
  /\ c \in DOMAIN inits
  /\ inits[c].hooks[o] = "running"
  /\ LET hk == [inits[c].hooks EXCEPT ![o] = h]
         st == InitOutcome(c, hk)
     IN /\ inits' = [inits EXCEPT ![c].hooks = hk, ![c].st = st]
        /\ initialized' = IF st = "returned" /\ inits[c].st = "running" THEN TRUE
                          ELSE initialized
  /\ UNCHANGED <<plugins, routerVars, regs, destroys, triggers>>

InitHookOk(c, o) ==
  /\ InitHookSettles(c, o, "ok")
  /\ life' = [life EXCEPT ![o].initOk = TRUE]

InitHookFail(c, o) ==
  /\ ObjectOf(o).initRaises
  /\ InitHookSettles(c, o, "failed")
  /\ UNCHANGED life

\* init() of a manager none of whose plugins defines init: Promise.all of the
\* settled callbacks resolves, initialized is set
InitSettle(c) ==
  /\ c \in DOMAIN inits
  /\ inits[c].st = "running"
  /\ \A o \in Objects : inits[c].hooks[o] = "none"
  /\ inits' = [inits EXCEPT ![c].st = "returned"]
  /\ initialized' = TRUE
  /\ UNCHANGED <<plugins, routerVars, regs, destroys, triggers, life>>

\* destroy(): if (!this.initialized) return
DestroySkips == ~initialized

\* the first position from k on whose plugin defines destroy (0: none); the
\* Map iterator is live, a plugin registered during the loop is visited
NextDestroy(k) ==
  LET J == {j \in DOMAIN plugins : j >= k /\ ObjectOf(plugins[j]).destroy}
  IN IF J = {} THEN 0 ELSE CHOOSE j \in J : \A i \in J : j <= i

\* destroy()'s loop from position k up to its next suspension: it awaits the
\* next destroy hook, or past the last plugin clears the registry, resets
\* initialized and returns.
DestroyLoop(d, rec, k) ==
  IF NextDestroy(k) # 0
  THEN /\ destroys' = [j \in 1..d |-> IF j = d
                          THEN [rec EXCEPT !.st = "running", !.cursor = NextDestroy(k)]
                          ELSE destroys[j]]
       /\ life' = [life EXCEPT ![plugins[NextDestroy(k)]].destroy = @ + 1,
                               ![plugins[NextDestroy(k)]].destroyStarted = TRUE]
       /\ UNCHANGED <<plugins, initialized>>
  ELSE /\ destroys' = [j \in 1..d |-> IF j = d
                          THEN [rec EXCEPT !.st = "returned", !.cursor = 0]
                          ELSE destroys[j]]
       /\ plugins' = <<>>
       /\ initialized' = FALSE
       /\ UNCHANGED life

\* destroy() up to its first suspension.  The caller does not call destroy()
\* while an earlier destroy() call is running.
DestroyCall ==
  /\ Len(destroys) < MaxDestroys
  /\ \A d \in DOMAIN destroys : destroys[d].st # "running"
  /\ LET rec == [st |-> "running", skipped |-> FALSE, cursor |-> 0, failed |-> {}]
     IN IF DestroySkips
        THEN /\ destroys' = Append(destroys, [rec EXCEPT !.st = "returned", !.skipped = TRUE])
             /\ UNCHANGED <<plugins, initialized, life>>
        ELSE DestroyLoop(Len(destroys) + 1, rec, 1)
  /\ UNCHANGED <<routerVars, regs, inits, triggers>>

\* the destroy hook that destroy call d awaits settles; an error is logged
\* and the loop goes on
DestroyHookSettles(d, raised) ==
  /\ d \in DOMAIN destroys
  /\ destroys[d].st = "running"
  /\ raised => ObjectOf(plugins[destroys[d].cursor]).destroyRaises
  /\ DestroyLoop(d, IF raised
                    THEN [destroys[d] EXCEPT !.failed = @ \cup {plugins[destroys[d].cursor]}]
                    ELSE destroys[d],
                 destroys[d].cursor + 1)
  /\ UNCHANGED <<routerVars, regs, inits, triggers>>

\* pluginNames.map(name => plugins.get(name)).filter(Boolean): the registered
\* plugins of the names given, in the order and number the names are given
RECURSIVE Named(_)
Named(names) ==
  IF names = <<>> THEN <<>>
  ELSE (IF Has(plugins, Head(names)) THEN <<Get(plugins, Head(names))>> ELSE <<>>)
       \o Named(Tail(names))

\* executeHook: allPlugins
AllPlugins(names) == IF names = Absent THEN plugins ELSE Named(names)

\* executeHook: targets = allPlugins.filter(shouldHandleEvent)
Targets(eventName, names) ==
  SelectSeq(AllPlugins(names), LAMBDA o : shouldHandleEvent(ObjectOf(o), eventName))

\* mutant: no fallback from onReplay to onEvent
HookOfNoFallback(p, hookName) ==
  IF hookName = "onEvent" THEN (IF p.onEvent THEN "onEvent" ELSE "none")
  ELSE IF hookName = "onReplay" THEN (IF p.onReplay THEN "onReplay" ELSE "none")
  ELSE (IF p.onDLQ THEN "onDLQ" ELSE "none")

\* the hook executeHook picks on plugin p: onReplay falls back to onEvent
HookOf(p, hookName) ==
  IF hookName = "onEvent" THEN (IF p.onEvent THEN "onEvent" ELSE "none")
  ELSE IF hookName = "onReplay"
       THEN (IF p.onReplay THEN "onReplay" ELSE IF p.onEvent THEN "onEvent" ELSE "none")
  ELSE (IF p.onDLQ THEN "onDLQ" ELSE "none")

\* the call has settled when none of its hooks is running (Promise.allSettled)
TriggerSt(hk) ==
  IF \E j \in DOMAIN hk : hk[j].st = "running" THEN "running" ELSE "returned"

\* triggerEvent / triggerReplay / triggerDLQ up to the await: the precondition
\* error on an uninitialized manager; otherwise the hook of every target is
\* invoked before the call first suspends, a target without hook is skipped.
TriggerStart(hookName, eventName, names, by) ==
  /\ Len(triggers) < MaxTriggers
  /\ LET call == [hook |-> hookName, event |-> eventName, names |-> names,
                  by |-> IF by = 0 THEN "caller" ELSE "emit", parent |-> by]
         tg == Targets(eventName, names)
         hk == [j \in DOMAIN tg |->
                  [o |-> tg[j], hook |-> HookOf(ObjectOf(tg[j]), hookName),
                   st |-> IF HookOf(ObjectOf(tg[j]), hookName) = "none"
                          THEN "skipped" ELSE "running",
                   onError |-> "none"]]
     IN triggers' = Append(triggers,
          IF TriggerRaises
          THEN [call |-> call, st |-> "raised", error |-> "notInitialized",
                targets |-> <<>>]
          ELSE [call |-> call, st |-> TriggerSt(hk), error |-> "none", targets |-> hk])
  /\ UNCHANGED <<plugins, initialized, routerVars, regs, inits, destroys, life>>

TriggerCall(hookName, eventName, names) ==
  TriggerStart(hookName, eventName, names, 0)

\* shouldHandleEvent calls plugin.events(eventName) outside any try: when the
\* predicate of a candidate plugin throws, the filter throws and the trigger
\* call raises before any hook is invoked
TriggerPredicateRaise(hookName, eventName, names) ==
  /\ Len(triggers) < MaxTriggers
  /\ ~TriggerRaises
  /\ \E o \in Range(AllPlugins(names)) :
        ObjectOf(o).filter = "fn" /\ ObjectOf(o).predicateRaises
  /\ triggers' = Append(triggers,
        [call |-> [hook |-> hookName, event |-> eventName, names |-> names,
                   by |-> "caller", parent |-> 0],
         st |-> "raised", error |-> "predicate", targets |-> <<>>])
  /\ UNCHANGED <<plugins, initialized, routerVars, regs, inits, destroys, life>>

\* mutant: the rejection of the emitted triggerEvent is thrown into the
\* emitting hook
EmitRethrows(t, j, eventName) ==
  /\ t \in DOMAIN triggers
  /\ j \in DOMAIN triggers[t].targets
  /\ triggers[t].targets[j].st = "running"
  /\ eventName \in ObjectOf(triggers[t].targets[j].o).emits
  /\ IF TriggerRaises
     THEN /\ Len(triggers) < MaxTriggers
          /\ triggers' = Append([triggers EXCEPT ![t].targets[j].st = "raised"],
                [call |-> [hook |-> "onEvent", event |-> eventName, names |-> Absent,
                           by |-> "emit", parent |-> t],
                 st |-> "raised", error |-> "notInitialized", targets |-> <<>>])
          /\ UNCHANGED <<plugins, initialized, routerVars, regs, inits, destroys, life>>
     ELSE TriggerStart("onEvent", eventName, Absent, t)

\* context.emit(event) from a running hook: triggerEvent(event) for all
\* plugins, not awaited, its rejection logged
Emit(t, j, eventName) ==
  /\ t \in DOMAIN triggers
  /\ j \in DOMAIN triggers[t].targets
  /\ triggers[t].targets[j].st = "running"
  /\ eventName \in ObjectOf(triggers[t].targets[j].o).emits
  /\ TriggerStart("onEvent", eventName, Absent, t)

\* a hook of trigger call t returns
PluginHookReturn(t, j) ==
  /\ t \in DOMAIN triggers
  /\ j \in DOMAIN triggers[t].targets
  /\ triggers[t].targets[j].st = "running"
  /\ LET hk == [triggers[t].targets EXCEPT ![j].st = "ok"]
     IN triggers' = [triggers EXCEPT ![t].targets = hk, ![t].st = TriggerSt(hk)]
  /\ UNCHANGED <<plugins, initialized, routerVars, regs, inits, destroys, life>>

\* a hook of trigger call t raises: the error is logged, the plugin's onError
\* is invoked if defined (its own failure is logged), the call does not raise
PluginHookRaise(t, j) ==
  /\ t \in DOMAIN triggers
  /\ j \in DOMAIN triggers[t].targets
  /\ triggers[t].targets[j].st = "running"
  /\ ObjectOf(triggers[t].targets[j].o).hookRaises
  /\ LET hk == [triggers[t].targets EXCEPT
                  ![j].st = "raised",
                  ![j].onError = IF ObjectOf(triggers[t].targets[j].o).onError
                                 THEN "invoked" ELSE "none"]
     IN triggers' = [triggers EXCEPT ![t].targets = hk, ![t].st = TriggerSt(hk)]
  /\ UNCHANGED <<plugins, initialized, routerVars, regs, inits, destroys, life>>

\* --------------------------------------- services/dynamodb, services/fetch
NoBcd == [pc |-> "idle"]
NoHttp ==
  [pc |-> "idle", maxRetries |-> 0, attempt |-> 0, fetches |-> 0,
   timer |-> "none", history |-> <<>>, error |-> [kind |-> "none", status |-> 0]]

\* const BATCH_SIZE = 100
BATCH_SIZE == 100

Min(a, b) == IF a <= b THEN a ELSE b
UpTo(n) == [i \in 1..n |-> i]

\* the eventIds arrays of the callers: empty, one id, a full chunk, one more,
\* the most chunks with a last chunk of one id, and an array that repeats an id
IdLists ==
  {UpTo(n) : n \in {0, 1, BATCH_SIZE, BATCH_SIZE + 1, (MaxChunks - 1) * BATCH_SIZE + 1}}
    \cup {<<3, 7, 3>>}

\* the ids at the ends of the chunks
Edges(ids) == {id \in Range(ids) : id % BATCH_SIZE \in {0, 1}}

\* what the table holds, and the ids whose GetItem fails, of the input's ids
IdSets(ids) == {{}, Edges(ids), Range(ids), Range(ids) \ Edges(ids)}

\* the keys one BatchGet leaves unprocessed: the ends of the chunk, or all
Unprocessed(batch, which) ==
  IF which = "ends" THEN {batch[1], batch[Len(batch)]}
  ELSE IF which = "all" THEN Range(batch)
  ELSE {}

\* mutant: one request with all the ids
ChunksWhole(idList) == <<idList>>

\* batches: eventIds.slice(i, i + BATCH_SIZE) for i = 0, BATCH_SIZE, ...
RECURSIVE Chunks(_)
Chunks(idList) ==
  IF idList = <<>> THEN <<>>
  ELSE <<SubSeq(idList, 1, Min(BATCH_SIZE, Len(idList)))>>
       \o Chunks(SubSeq(idList, Min(BATCH_SIZE, Len(idList)) + 1, Len(idList)))

\* the fallback loop over a chunk: checkDuplicate per id, an id whose lookup
\* fails is logged and skipped
FallbackFound(batch) ==
  {id \in Range(batch) : id \in bcd.present /\ id \notin bcd.failing}

\* result.Responses of a BatchGet that left the keys of U unprocessed
Responses(batch, U) == {id \in Range(batch) : id \in bcd.present /\ id \notin U}

\* the unprocessed keys, in request order, before the first whose lookup fails
BeforeFailure(batch, U) ==
  {batch[i] : i \in {i \in DOMAIN batch :
      batch[i] \in U /\ \A h \in 1..i : batch[h] \in U => batch[h] \notin bcd.failing}}

\* the ids one pass of the loop body adds to duplicates.  outcome "ok": the
\* request answered for every key; "unprocessed": it left the keys of U
\* unprocessed, they are looked up one by one, and a lookup that fails throws
\* into the catch; "fail": the request failed, the catch looks up every id.
Found(batch, outcome, U) ==
  IF outcome = "fail" THEN FallbackFound(batch)
  ELSE IF outcome = "ok" THEN Responses(batch, {})
  ELSE IF U \cap bcd.failing = {}
       THEN Responses(batch, U) \cup {id \in U : id \in bcd.present}
  ELSE Responses(batch, U)
       \cup {id \in BeforeFailure(batch, U) : id \in bcd.present}
       \cup FallbackFound(batch)

\* batchCheckDuplicates(eventIds) up to its first request: an empty array
\* returns the empty set at once
BcdCall(ids, present, failing) ==
  /\ bcd.pc = "idle"
  /\ bcd' = [pc |-> IF Len(ids) = 0 THEN "returned" ELSE "running",
             ids |-> ids, present |-> present, failing |-> failing,
             batches |-> IF Len(ids) = 0 THEN <<>> ELSE Chunks(ids),
             outcomes |-> <<>>, duplicates |-> {}]
  /\ UNCHANGED <<mgrVars, coreVars, pmVars, http, detached>>

\* one pass of the loop over batches: one BatchGet request, its responses,
\* the individual lookups it leads to; after the last batch the set is returned
BcdBatch(outcome, which) ==
  /\ bcd.pc = "running"
  /\ outcome = "unprocessed" <=> which # "none"
  /\ LET k == Len(bcd.outcomes) + 1
         batch == bcd.batches[k]
         U == Unprocessed(batch, which)
     IN /\ bcd' = [bcd EXCEPT
             !.outcomes = Append(@, [kind |-> outcome, unprocessed |-> U]),
             !.duplicates = @ \cup Found(batch, outcome, U),
             !.pc = IF k = Len(bcd.batches) THEN "returned" ELSE "running"]
  /\ UNCHANGED <<mgrVars, coreVars, pmVars, http, detached>>


\* the statuses the server answers with
Statuses == {200, 404, 429, 503}

\* what one fetch call ends in: a response (whose body parses or not), a
\* network error (TypeError), or an AbortError (timeout or caller's signal)
Outcomes ==
  {[kind |-> "response", status |-> s, parses |-> b] :
     s \in Statuses, b \in BOOLEAN} \cup
  {[kind |-> "network", status |-> 0, parses |-> FALSE],
   [kind |-> "abort", status |-> 0, parses |-> FALSE]}

\* validateStatus = (s) => s >= 200 && s < 300
validateStatus(s) == s >= 200 /\ s < 300

\* retryOn: an Error is retried; a Response on 429 and 5xx
retryOnResponse(s) == s = 429 \/ (s >= 500 /\ s < 600)
retryOnError == TRUE

\* mutant: the comparison of the loop's own condition
MayRetryInclusive == http.attempt <= http.maxRetries

\* attempt < this.#maxRetries
MayRetry == http.attempt < http.maxRetries

\* request(method, url) without fireAndForget, up to the first await: the
\* timeout's timer is armed and the first fetch is called
HttpRequest(maxRetries) ==
  /\ http.pc = "idle"
  /\ http' = [NoHttp EXCEPT !.pc = "fetching", !.maxRetries = maxRetries,
                             !.fetches = 1, !.timer = "armed"]
  /\ UNCHANGED <<mgrVars, coreVars, pmVars, bcd, detached>>

\* backoff, sleep, attempt++, continue: the next fetch is called
Retry(h, timer) ==
  [http EXCEPT !.history = h, !.timer = timer, !.attempt = @ + 1, !.fetches = @ + 1]

\* the catch block for error err thrown inside the try: an error that is
\* not an AbortError is retried while attempts are left; otherwise the timer
\* is cleared and an HttpError is thrown: err itself if it is one, else one
\* of status 0
Catch(h, timer, err) ==
  IF MayRetry /\ retryOnError /\ err.kind # "abort"
  THEN Retry(h, timer)
  ELSE [http EXCEPT !.history = h, !.timer = "cleared", !.pc = "raised",
                    !.error = [kind |-> "HttpError",
                               status |-> IF err.kind = "HttpError" THEN err.status ELSE 0]]

\* the fetch call of the current attempt ends in outcome out
HttpFetchSettles(out) ==
  /\ http.pc = "fetching"
  /\ out.kind = "abort" => http.timer = "armed"
  /\ out.kind = "response" => (out.parses \/ validateStatus(out.status))
  /\ LET h == Append(http.history, out)
     IN http' =
          IF out.kind # "response" THEN Catch(h, http.timer, out)
          ELSE IF validateStatus(out.status)
          THEN (IF out.parses
                THEN [http EXCEPT !.history = h, !.timer = "cleared", !.pc = "returned"]
                ELSE Catch(h, "cleared", [kind |-> "HttpError", status |-> out.status]))
          ELSE IF MayRetry /\ retryOnResponse(out.status)
          THEN Retry(h, http.timer)
          ELSE Catch(h, "cleared", [kind |-> "HttpError", status |-> out.status])
  /\ UNCHANGED <<mgrVars, coreVars, pmVars, bcd, detached>>

\* ------------------------------------------------------- specification
Init ==
  /\ plugins = <<>>
  /\ initialized = FALSE
  /\ dlqUrl \in BOOLEAN
  /\ table \in SUBSET Ids
  /\ pc = "idle"
  /\ second = FALSE
  /\ prev = NoPrev
  /\ events = <<>>
  /\ dedup = NoDedup
  /\ uniqueEvents = <<>>
  /\ groups = NoGroups
  /\ trigA = NoCalls
  /\ trigB = NoCalls
  /\ hooks = NoHooks
  /\ onErrors = {}
  /\ asyncErrors = NoErrors
  /\ syncErrors = NoErrors
  /\ failedEvents = <<>>
  /\ store = NoCalls
  /\ dlq = "none"
  /\ dlqEntries = <<>>
  /\ log = {}
  /\ thrown = NoError
  /\ records = <<>>
  /\ response = NoResponse
  /\ regs = NoRegs
  /\ inits = <<>>
  /\ destroys = <<>>
  /\ triggers = <<>>
  /\ life = NoLife
  /\ bcd = NoBcd
  /\ http = NoHttp
  /\ detached = 0

Next ==
  \/ \E n \in ListPlugins : Register(n)
  \/ MgrInit
  \/ Destroy
  \/ \E b \in Batches : Start(b)
  \/ DedupSkip
  \/ \E D \in SUBSET Ids : DedupReturn(D)
  \/ DedupRaise
  \/ StartPhaseA
  \/ \E i \in Idx, n \in PluginNames : HookReturn(i, n)
  \/ \E i \in Idx, n \in PluginNames : HookRaise(i, n)
  \/ StartPhaseB
  \/ StartStore
  \/ \E i \in Idx : StoreOk(i)
  \/ \E i \in Idx : StoreFail(i)
  \/ FinishStore
  \/ DlqOk
  \/ DlqFail

Spec == Init /\ [][Next]_vars

\* ------------------------------------------------------------ properties
InUnique(i) == i \in Range(uniqueEvents)
HookInvoked(i, n) == hooks[i][n] # "none"
Dispatched(i) == trigA[i] # "none" \/ trigB[i] # "none"
StoreCalled(i) == store[i] # "none"
InDlqBatch(i) == \E j \in DOMAIN dlqEntries : dlqEntries[j].pos = i

\* C1: with the manager initialized and dlqUrl configured, an event on which a
\* matched plugin's onEvent raised is never passed to storeEvent and is in
\* the DLQ batch of the call.
C1_HookFailureToDlq ==
  \A i \in Idx, n \in PluginNames :
    (hooks[i][n] = "raised" /\ dlqUrl) =>
      /\ ~StoreCalled(i)
      /\ (pc = "returned" => InDlqBatch(i))

\* C2: an event whose id batchCheckDuplicates returned is dropped: no hook,
\* no triggerEvent, no storeEvent, no DLQ entry; when every event of the
\* batch is a duplicate the call makes no triggerEvent, storeEvent or
\* sendMessageBatch call at all.
C2_DuplicatesDropped ==
  dedup.st = "returned" =>
    /\ \A i \in Positions :
         events[i].id \in dedup.dups =>
           /\ \A n \in PluginNames : ~HookInvoked(i, n)
           /\ ~Dispatched(i)
           /\ ~StoreCalled(i)
           /\ ~InDlqBatch(i)
    /\ (\A i \in Positions : events[i].id \in dedup.dups) =>
         /\ \A i \in Idx : ~Dispatched(i) /\ ~StoreCalled(i)
         /\ dlq = "none"

C2_Witness ==
  /\ pc = "returned"
  /\ dedup.st = "returned"
  /\ \E i, j \in Positions :
       /\ events[i].id \in dedup.dups
       /\ store[j] = "ok"
       /\ \E n \in PluginNames : hooks[j][n] = "ok"

\* C3: no Phase B triggerEvent call starts while a Phase A triggerEvent call
\* of the same batch is still running.
C3_PhaseOrder ==
  [][(\E i \in Idx : trigB[i] = "none" /\ trigB'[i] # "none")
       => (\A j \in Idx : trigA[j] # "running" /\ trigA'[j] # "running")]_vars

C3_Witness ==
  \E i, j \in Idx : trigA[i] = "returned" /\ trigB[j] = "running"

Stored(i) == store[i] = "ok"
SentToDlq(i) == dlq = "sent" /\ InDlqBatch(i)
StoreFailureLogged(i) == store[i] = "failed" /\ Logged("storeFailed")
ExactlyOne(a, b, c) == (a /\ ~b /\ ~c) \/ (~a /\ b /\ ~c) \/ (~a /\ ~b /\ c)
\* a failed event whose DLQ delivery did not happen
Lost(i) == i \in Range(failedEvents) /\ (~dlqUrl \/ dlq = "sendFailed")

\* C4 (as claimed): once processBatch has returned, every unique event with
\* an id is exactly one of stored, sent to the DLQ, reported as a storage
\* failure in the log.
C4_Conservation ==
  pc = "returned" =>
    \A i \in Positions :
      (InUnique(i) /\ HasId(events[i])) =>
        ExactlyOne(Stored(i), SentToDlq(i), StoreFailureLogged(i))

\* C4 (amended): once processBatch has returned, every unique event with an
\* id is exactly one of stored, sent to the DLQ, reported as a storage
\* failure, unless it failed and dlqUrl is absent or the DLQ send failed: then
\* it is none of the three and the log carries the events-lost warning or the
\* DLQ send error.
C4_ConservationAmended ==
  pc = "returned" =>
    \A i \in Positions :
      (InUnique(i) /\ HasId(events[i])) =>
        IF Lost(i)
        THEN /\ ~Stored(i) /\ ~SentToDlq(i) /\ ~StoreFailureLogged(i)
             /\ (Logged("eventsLost") \/ Logged("dlqSendFailed"))
        ELSE ExactlyOne(Stored(i), SentToDlq(i), StoreFailureLogged(i))

C4_Witness ==
  /\ pc = "returned"
  /\ \E i, j \in Positions :
       /\ HasId(events[i]) /\ Lost(i)
       /\ HasId(events[j]) /\ StoreFailureLogged(j)

PhaseAStarted == pc \in {"phaseA", "phaseB", "store", "dlq", "returned"} /\ uniqueEvents # <<>>
PhaseBStarted == pc \in {"phaseB", "store", "dlq", "returned"} /\ uniqueEvents # <<>>

\* every triggerEvent call the router owes event i has been made, and every
\* call that passed the manager's precondition invoked each plugin it names
\* (Phase B: each one still registered when the phase started)
DispatchedToGroups(i) ==
  /\ PhaseAStarted =>
       /\ groups.async[i] # <<>> => trigA[i] # "none"
       /\ trigA[i] \in {"running", "returned"} =>
            \A n \in Range(groups.async[i]) : HookInvoked(i, n)
  /\ PhaseBStarted =>
       /\ groups.inline[i] # <<>> => trigB[i] # "none"
       /\ trigB[i] \in {"running", "returned"} =>
            \A n \in Range(groups.inline[i]) \cap Range(plugins) : HookInvoked(i, n)

\* every registered async or sync-inline plugin whose filter matches event i
\* is in one of the event's dispatch lists
GroupsCoverMatching(i) ==
  PhaseAStarted =>
    \A n \in Range(plugins) :
      (/\ shouldHandleEvent(PluginOf(n), events[i].name)
       /\ \/ PluginOf(n).mode = "async"
          \/ PluginOf(n).mode = "sync" /\ PluginOf(n).strategy # "worker")
      => n \in Range(groups.async[i]) \cup Range(groups.inline[i])

\* C5: a hook that raised on an event prevents no other invocation: every
\* other plugin of the same triggerEvent call was invoked, the event's and
\* every other unique event's triggerEvent calls of both phases are made, and
\* their plugins invoked.
C5_Isolation ==
  (\E i \in Idx, n \in PluginNames : hooks[i][n] = "raised") =>
    \A j \in Positions : InUnique(j) => DispatchedToGroups(j)

C5_Witness ==
  /\ pc = "returned"
  /\ \E i, j \in Positions :
       /\ i # j
       /\ hooks[i]["A"] = "raised" /\ hooks[i]["B"] = "ok" /\ hooks[i]["S"] = "ok"
       /\ hooks[j]["B"] = "ok" /\ hooks[j]["S"] = "ok"

\* C6: an event is classified failed only if a triggerEvent call for that
\* very event raised.
C6_ErrorsScoped ==
  \A i \in Range(failedEvents) : trigA[i] = "raised" \/ trigB[i] = "raised"

NothingInvoked ==
  /\ \A i \in Idx, n \in PluginNames : ~HookInvoked(i, n)
  /\ \A i \in Idx : ~Dispatched(i) /\ ~StoreCalled(i)

FirstCallStoredAll ==
  /\ prev.returned
  /\ \A i \in Positions : HasId(events[i]) /\ i \in prev.stored

C8_EventsWithoutId ==
  \A i \in Positions :
    ~HasId(events[i]) =>
      /\ \A j \in DOMAIN dedup.ids : dedup.ids[j] # events[i].id
      /\ Len(dedup.ids) = Len(eventsWithId) \/ dedup.st = "none"
      /\ pc \notin {"idle", "dedup"} => InUnique(i)
      /\ GroupsCoverMatching(i)
      /\ DispatchedToGroups(i)
      /\ ~StoreCalled(i)

C8_Witness ==
  /\ pc = "returned"
  /\ dedup.st = "returned"
  /\ \E i \in Positions :
       /\ ~HasId(events[i])
       /\ trigA[i] = "raised"
       /\ trigB[i] = "returned" /\ hooks[i]["S"] = "ok"

C12_NoDlqConfigured ==
  (~dlqUrl /\ failedEvents # <<>>) =>
    /\ dlq = "none" /\ dlqEntries = <<>>
    /\ \A i \in Range(failedEvents) : ~StoreCalled(i)
    /\ pc \in {"store", "returned"}
    /\ pc = "returned" =>
         /\ Msg("eventsLost", Len(failedEvents)) \in log
         /\ thrown = NoError

C12_Witness ==
  /\ ~dlqUrl
  /\ pc = "returned"
  /\ \E i, j \in Positions :
       /\ i \in Range(failedEvents) /\ HasId(events[i])
       /\ Stored(j)

HandlerReturned == response.st = "returned"
Reported(r) == r \in Range(response.batchItemFailures)
\* a hook raised on the event of message r
HookFailedOn(r) ==
  /\ Parses(records[r].body)
  /\ \E n \in PluginNames : hooks[EventOf(r)][n] = "raised"

C15_InvalidNeverReported ==
  \A r \in 1..Len(records) : ~Parses(records[r].body) => ~Reported(r)

\* C16: when processBatch returned on a batch in which a plugin hook raised on
\* some events and on others none did, the handler reports exactly the
\* messages of the events on which a hook raised.
C16_PartialBatchFailure ==
  (/\ HandlerReturned /\ pc = "returned"
   /\ \E r \in 1..Len(records) : HookFailedOn(r)
   /\ \E r \in 1..Len(records) : Parses(records[r].body) /\ ~HookFailedOn(r)) =>
    \A r \in 1..Len(records) : HookFailedOn(r) <=> Reported(r)

\* the event was grouped and no registered plugin matched it
Unmatched(i) ==
  /\ PhaseAStarted
  /\ InUnique(i)
  /\ groups.async[i] = <<>> /\ groups.inline[i] = <<>> /\ groups.worker[i] = <<>>

\* C17: a unique event that no registered plugin matches is not classified
\* failed, is never in a DLQ batch, and is passed to storeEvent when it has an
\* id.
C17_UnmatchedSucceeds ==
  \A i \in Positions :
    Unmatched(i) =>
      /\ i \notin Range(failedEvents)
      /\ ~InDlqBatch(i)
      /\ (pc \in {"store", "dlq", "returned"} /\ HasId(events[i])) => StoreCalled(i)

WorkerPlugins == {n \in PluginNames : PluginOf(n).mode = "sync" /\ PluginOf(n).strategy = "worker"}

\* C18: no hook of a sync plugin whose executionStrategy is worker is invoked,
\* no triggerEvent call of the router names such a plugin, and once Phase B has
\* started the events such a plugin matches are counted in a warning.
C18_WorkerNotDispatched ==
  \A n \in WorkerPlugins, i \in Idx :
    /\ ~HookInvoked(i, n)
    /\ n \notin Range(groups.async[i]) \cup Range(groups.inline[i])
    /\ (PhaseBStarted /\ n \in Range(groups.worker[i])) =>
         Msg("workerNotImplemented", Cardinality({j \in Idx : groups.worker[j] # <<>>})) \in log

C18_Witness ==
  /\ pc = "returned"
  /\ \E i \in Positions :
       /\ "W" \in Range(groups.worker[i])
       /\ hooks[i]["S"] = "ok"
       /\ Stored(i)

RaisedInBothPhases(j) ==
  trigA[dlqEntries[j].pos] = "raised" /\ trigB[dlqEntries[j].pos] = "raised"

\* C20 (as claimed): the envelope of an event whose dispatch raised in Phase A
\* and again in Phase B carries the Phase A error.
C20_FirstError ==
  \A j \in DOMAIN dlqEntries : RaisedInBothPhases(j) => dlqEntries[j].error.phase = "A"

\* the last position of the unique set whose dispatch in calls raised and
\* whose key is k (0 when there is none)
LastRaised(calls, k) ==
  LastIn(uniqueEvents, {i \in Positions : calls[i] = "raised" /\ Key(events[i]) = k})

\* C20 (amended): the envelope of a failed event carries the error of the last
\* Phase B dispatch that raised on an event with the same key (id, or name
\* without id); only when no Phase B dispatch raised under that key it carries
\* the error of the last Phase A dispatch that raised under it.
C20_LastError ==
  \A j \in DOMAIN dlqEntries :
    LET k == Key(events[dlqEntries[j].pos])
    IN IF LastRaised(trigB, k) # 0
       THEN dlqEntries[j].error = [phase |-> "B", pos |-> LastRaised(trigB, k)]
       ELSE /\ LastRaised(trigA, k) # 0
            /\ dlqEntries[j].error = [phase |-> "A", pos |-> LastRaised(trigA, k)]

C20_Witness ==
  /\ dlq = "sent"
  /\ \E j \in DOMAIN dlqEntries :
       /\ RaisedInBothPhases(j)
       /\ dlqEntries[j].error = [phase |-> "B", pos |-> dlqEntries[j].pos]

\* processBatch called a second time with the same batch
NextRepeat == Next \/ Repeat
SpecRepeat == Init /\ [][NextRepeat]_vars

\* processBatch with a registry that may hold the worker plugin, whose events
\* filter is a predicate
NextCritical ==
  \/ Next
  \/ Register("W")
  \/ \E i \in Idx, n \in PluginNames : GroupRaise(i, n)
SpecCritical == Init /\ [][NextCritical]_vars

\* processBatch with a registry that may also hold a plugin that declares no
\* mode (as plugins/slack-notifier does)
NextModes ==
  \/ NextCritical
  \/ Register("N")
SpecModes == Init /\ [][NextModes]_vars

\* One invocation of the consumer handler.  The handler initializes the
\* manager before it parses and nothing in it calls destroy(), so no
\* triggerEvent call raises and sendToDLQ is not reached.
NextHandler ==
  \/ \E n \in PluginNames \ {"N"} : Register(n)
  \/ \E recs \in RecordLists : HandlerStart(recs)
  \/ DedupSkip
  \/ \E D \in SUBSET Ids : DedupReturn(D)
  \/ DedupRaise
  \/ \E i \in Idx, n \in PluginNames : GroupRaise(i, n)
  \/ StartPhaseA
  \/ \E i \in Idx, n \in PluginNames : HookReturn(i, n)
  \/ \E i \in Idx, n \in PluginNames : HookRaise(i, n)
  \/ StartPhaseB
  \/ StartStore
  \/ \E i \in Idx : StoreOk(i)
  \/ \E i \in Idx : StoreFail(i)
  \/ FinishStore
  \/ HandlerReturn
SpecHandler == Init /\ [][NextHandler]_vars

\* The manager alone: no router call is made, no table or queue configured
InitManager ==
  /\ Init
  /\ dlqUrl = FALSE
  /\ table = {}

NextManager ==
  \/ \E list \in RegLists : RegisterAll(list)
  \/ InitCall
  \/ \E c \in DOMAIN inits, o \in Objects : InitHookOk(c, o)
  \/ \E c \in DOMAIN inits, o \in Objects : InitHookFail(c, o)
  \/ \E c \in DOMAIN inits : InitSettle(c)
  \/ DestroyCall
  \/ \E d \in DOMAIN destroys, raised \in BOOLEAN : DestroyHookSettles(d, raised)
  \/ \E a \in TriggerArgs : TriggerCall(a[1], a[2], Absent)
  \/ \E t \in DOMAIN triggers : \E j \in DOMAIN triggers[t].targets, n \in Names : Emit(t, j, n)
  \/ \E t \in DOMAIN triggers : \E j \in DOMAIN triggers[t].targets : PluginHookReturn(t, j)
  \/ \E t \in DOMAIN triggers : \E j \in DOMAIN triggers[t].targets : PluginHookRaise(t, j)

SpecManager == InitManager /\ [][NextManager]_vars

\* The dispatches of an initialized manager, over every hook name, event name
\* and pluginNames argument
NextMatching ==
  \/ \E list \in RegLists : RegisterAll(list)
  \/ InitCall
  \/ \E c \in DOMAIN inits, o \in Objects : InitHookOk(c, o)
  \/ \E c \in DOMAIN inits : InitSettle(c)
  \/ \E h \in HookNames, n \in Names, names \in NamesArgs : TriggerCall(h, n, names)
  \/ \E t \in DOMAIN triggers : \E j \in DOMAIN triggers[t].targets : PluginHookReturn(t, j)
  \/ \E t \in DOMAIN triggers : \E j \in DOMAIN triggers[t].targets : PluginHookRaise(t, j)

SpecMatching == InitManager /\ [][NextMatching]_vars

\* The dispatches of a manager one of whose plugins has an events predicate
\* that may throw
NextThrowing ==
  \/ \E list \in ThrowingLists : RegisterAll(list)
  \/ InitCall
  \/ \E c \in DOMAIN inits, o \in Objects : InitHookOk(c, o)
  \/ \E c \in DOMAIN inits : InitSettle(c)
  \/ \E a \in TriggerArgs : TriggerCall(a[1], a[2], Absent)
  \/ \E a \in TriggerArgs : TriggerPredicateRaise(a[1], a[2], Absent)
  \/ \E t \in DOMAIN triggers : \E j \in DOMAIN triggers[t].targets : PluginHookReturn(t, j)
  \/ \E t \in DOMAIN triggers : \E j \in DOMAIN triggers[t].targets : PluginHookRaise(t, j)

SpecThrowing == InitManager /\ [][NextThrowing]_vars
\* batchCheckDuplicates alone, over the arrays, table contents and failures
NextDuplicates ==
  \/ \E ids \in IdLists : \E present \in IdSets(ids), failing \in IdSets(ids) :
       BcdCall(ids, present, failing)
  \/ \E outcome \in {"ok", "unprocessed", "fail"}, which \in {"none", "ends", "all"} :
       BcdBatch(outcome, which)

SpecDuplicates == InitManager /\ [][NextDuplicates]_vars

\* mutant: emit awaits the dispatch it starts, so the emitting hook settles
\* only after a chain of dispatches that never ends
EmitAwaited(i, n) ==
  /\ pc \in {"phaseA", "phaseB"}
  /\ hooks[i][n] = "running"
  /\ detached < MaxDetached
  /\ detached' = detached + 1
  /\ hooks' = [hooks EXCEPT ![i][n] = "awaiting"]
  /\ UNCHANGED <<mgrVars, dlqUrl, table, pc, second, prev, events, dedup, uniqueEvents,
                 groups, trigA, trigB, onErrors, asyncErrors, syncErrors, failedEvents,
                 store, dlq, dlqEntries, log, thrown, handlerVars, pmVars, bcd, http>>

\* a running onEvent of a dispatch of the router calls context.emit: the
\* manager starts triggerEvent for the emitted event and does not await it
EmitDetached(i, n) ==
  /\ pc \in {"phaseA", "phaseB"}
  /\ hooks[i][n] = "running"
  /\ detached < MaxDetached
  /\ detached' = detached + 1
  /\ UNCHANGED <<mgrVars, coreVars, pmVars, bcd, http>>

\* a hook of a detached dispatch calls context.emit in its turn
DetachedEmits ==
  /\ detached > 0
  /\ detached < MaxDetached
  /\ detached' = detached + 1
  /\ UNCHANGED <<mgrVars, coreVars, pmVars, bcd, http>>

\* a detached dispatch settles; its rejection is caught and logged
DetachedSettles ==
  /\ detached > 0
  /\ detached' = detached - 1
  /\ UNCHANGED <<mgrVars, coreVars, pmVars, bcd, http>>

\* the steps of a processBatch call after its start: the continuations of the
\* router and the completions of the calls it awaits
RouterStep ==
  \/ DedupSkip
  \/ \E D \in SUBSET Ids : DedupReturn(D)
  \/ DedupRaise
  \/ StartPhaseA
  \/ \E i \in Idx, n \in PluginNames : HookReturn(i, n)
  \/ \E i \in Idx, n \in PluginNames : HookRaise(i, n)
  \/ StartPhaseB
  \/ StartStore
  \/ \E i \in Idx : StoreOk(i)
  \/ \E i \in Idx : StoreFail(i)
  \/ FinishStore
  \/ DlqOk
  \/ DlqFail

\* processBatch while hooks emit events whose dispatches emit again; every
\* call the router awaits terminates, the detached dispatches need not
NextLive ==
  \/ Next
  \/ \E i \in Idx, n \in PluginNames : EmitDetached(i, n)
  \/ DetachedEmits
  \/ DetachedSettles

\* a table that holds one of the two ids the events carry
InitLive == Init /\ table = {"a"}

SpecLive == InitLive /\ [][NextLive]_vars /\ WF_vars(RouterStep)

\* HttpClient.request alone; every fetch call settles (the timer aborts it,
\* and the runtime's own timeouts end a fetch whose timer was cleared)
NextHttp ==
  \/ \E m \in 0..MaxRetries : HttpRequest(m)
  \/ \E out \in Outcomes : HttpFetchSettles(out)

SpecHttp ==
  /\ InitManager
  /\ [][NextHttp]_vars
  /\ WF_vars(\E out \in Outcomes : HttpFetchSettles(out))



\* ------------------------------------------------------------------ C21
\* C21: inside processBatch a storeEvent call starts only in Phase B's wake,
\* when no Phase A and no Phase B dispatch is still running, and the DLQ send
\* starts only when every storeEvent call of the batch has completed or
\* failed.
C21_StepOrdering ==
  [][/\ \A i \in Idx :
          (store[i] = "none" /\ store'[i] # "none") =>
            /\ pc = "phaseB"
            /\ \A k \in Idx : trigA[k] # "running" /\ trigB[k] # "running"
     /\ (dlq = "none" /\ dlq' # "none") =>
            /\ pc = "store"
            /\ \A i \in Idx : store[i] # "running"]_vars

\* a batch whose DLQ send is in flight after a Phase B dispatch was made and
\* a storeEvent call of the same batch was made and has completed
C21_Witness ==
  /\ dlq = "sending"
  /\ \E i \in Idx : store[i] \in {"ok", "failed"}
  /\ \E i \in Idx : trigB[i] \notin {"none", "running"}

\* ------------------------------------------------------------------ C22
\* position j of the list given to registerAll carries a name that is already
\* in the registry or was carried by an earlier position of the list
Collides(reg, list, j) ==
  \/ \E o \in Range(reg) : ObjectOf(o).name = ObjectOf(list[j]).name
  \/ \E i \in 1..(j - 1) : ObjectOf(list[i]).name = ObjectOf(list[j]).name

\* the first colliding position of the list, 0 when there is none
FirstCollision(reg, list) ==
  LET J == {j \in DOMAIN list : Collides(reg, list, j)}
  IN IF J = {} THEN 0 ELSE CHOOSE j \in J : \A i \in J : j <= i

\* C22: register / registerAll raises exactly when a name of the list is
\* already registered (or repeated in the list); the registry then keeps what
\* it held, followed by the plugins of the list before the first collision,
\* and nothing of the list from the collision on; without collision the whole
\* list is appended in list order.
C22_Collision ==
  [][regs'.n # regs.n =>
       LET c == FirstCollision(plugins, regs'.list)
       IN IF c = 0
          THEN ~regs'.raised /\ plugins' = plugins \o regs'.list
          ELSE regs'.raised /\ plugins' = plugins \o SubSeq(regs'.list, 1, c - 1)]_vars

\* registerAll([P1, P2, Q]) on an empty registry raised at P2, whose name P1
\* carries: P1 is registered, P2 and Q are not
C22_Witness ==
  /\ regs.raised
  /\ regs.list = <<"P1", "P2", "Q">>
  /\ plugins = <<"P1">>

\* ------------------------------------------------------------------ C23
\* C23: an init() call made on a manager that a successful init() left
\* initialized invokes no init hook, leaves the registry as it is and the
\* manager initialized, and returns at once with the warning.
C23_InitAgain ==
  [][(Len(inits') > Len(inits) /\ initialized) =>
       /\ inits'[Len(inits')].st = "returned"
       /\ inits'[Len(inits')].warned
       /\ \A o \in Objects : inits'[Len(inits')].hooks[o] = "none"
       /\ life' = life
       /\ plugins' = plugins
       /\ initialized']_vars

\* a second init() returned with the warning after the first one had run an
\* init hook and succeeded
C23_Witness ==
  /\ Len(inits) = 2
  /\ inits[1].st = "returned" /\ ~inits[1].warned
  /\ \E o \in Objects : inits[1].hooks[o] = "ok"
  /\ inits[2].st = "returned" /\ inits[2].warned
  /\ plugins # <<>>
  /\ initialized

\* ------------------------------------------------------------------ C24
\* C24: over any sequence of manager operations the init hook of a
\* registered plugin is invoked at most once and its destroy hook at most
\* once.
C24_HooksOnce ==
  \A o \in Objects : life[o].init <= 1 /\ life[o].destroy <= 1

\* ------------------------------------------------------------------ C25
\* C25: an init() call has returned or raised only when every init hook it
\* started has completed, also when one of them failed while others were
\* still running.
C25_InitJoinsAll ==
  \A c \in DOMAIN inits :
    inits[c].st \in {"returned", "raised"} =>
      \A o \in Objects : inits[c].hooks[o] # "running"

\* ------------------------------------------------------------------ C26
\* C26: when a destroy() call returns, the registry is empty, the manager is
\* uninitialized and every plugin that was registered with a destroy hook has
\* had it invoked, whatever state destroy() was called in.
C26_DestroyResets ==
  [][\A d \in DOMAIN destroys' :
       (/\ d \notin DOMAIN destroys \/ destroys[d].st # "returned"
        /\ destroys'[d].st = "returned") =>
         /\ plugins' = <<>>
         /\ ~initialized'
         /\ \A o \in Range(plugins) : ObjectOf(o).destroy => life'[o].destroy >= 1]_vars

\* ------------------------------------------------------------------ C27
\* C27: a triggerEvent, triggerReplay or triggerDLQ call made while the
\* manager is not initialized raises the precondition error and invokes no
\* plugin hook.
C27_Precondition ==
  [][(Len(triggers') > Len(triggers) /\ ~initialized) =>
       /\ triggers'[Len(triggers')].st = "raised"
       /\ triggers'[Len(triggers')].targets = <<>>]_vars

\* triggerReplay raised on a manager that was initialized and then destroyed,
\* with a plugin registered again
C27_Witness ==
  /\ \E t \in DOMAIN triggers :
        triggers[t].st = "raised" /\ triggers[t].call.hook = "onReplay"
  /\ destroys # <<>> /\ destroys[1].st = "returned" /\ ~destroys[1].skipped
  /\ plugins # <<>>
  /\ ~initialized

\* ------------------------------------------------------------------ C28
\* plugin object o is between the successful end of its init and the start
\* of its destroy
InService(o) == life[o].initOk /\ ~life[o].destroyStarted

\* C28: an onEvent, onReplay, onDLQ or onError invocation on a plugin starts
\* only after the plugin's init has completed successfully and before its
\* destroy has started.
C28_HooksInService ==
  [][/\ Len(triggers') > Len(triggers) =>
          \A j \in DOMAIN triggers'[Len(triggers')].targets :
            triggers'[Len(triggers')].targets[j].st = "running" =>
              InService(triggers'[Len(triggers')].targets[j].o)
     /\ \A t \in DOMAIN triggers : \A j \in DOMAIN triggers[t].targets :
          (/\ triggers[t].targets[j].onError = "none"
           /\ triggers'[t].targets[j].onError = "invoked") =>
            InService(triggers[t].targets[j].o)]_vars

\* ------------------------------------------------------------------ C29
\* C29: while the manager stays initialized the registry that executeHook,
\* getPlugin and listPlugins read does not change: no register or
\* registerAll call made after init() adds a plugin.
C29_RegistryFrozen ==
  [][(initialized /\ initialized') => plugins' = plugins]_vars

\* ------------------------------------------------------------------ C30
\* plugin object o is selected by the pluginNames argument
Selected(o, names) == names = Absent \/ ObjectOf(o).name \in Range(names)

\* plugin object o's events filter accepts the event name: no filter, a list
\* holding the name, or a predicate returning true for it
Accepts(o, eventName) ==
  \/ ObjectOf(o).filter = "none"
  \/ ObjectOf(o).filter = "list" /\ eventName \in ObjectOf(o).events
  \/ ObjectOf(o).filter = "fn" /\ eventName \in ObjectOf(o).events

\* C30: in a trigger call on an initialized manager a registered plugin has
\* its hook considered iff pluginNames is absent or holds the plugin's name,
\* and the plugin has no events filter, or lists the event's name, or its
\* predicate returns true for it; a name that is not registered adds nothing.
C30_Matching ==
  [][(Len(triggers') > Len(triggers) /\ initialized) =>
       LET new == triggers'[Len(triggers')]
       IN /\ new.st # "raised"
          /\ {new.targets[j].o : j \in DOMAIN new.targets} =
               {o \in Range(plugins) :
                  Selected(o, new.call.names) /\ Accepts(o, new.call.event)}]_vars

\* a dispatch of event y to the names zz (not registered) and q, on a registry
\* of two plugins: the only target is Q, whose predicate accepts y
C30_Witness ==
  \E t \in DOMAIN triggers :
    /\ triggers[t].call.names = <<"zz", "q">>
    /\ triggers[t].call.event = "y"
    /\ Len(triggers[t].targets) = 1
    /\ triggers[t].targets[1].o = "Q"
    /\ Len(plugins) = 2

\* ------------------------------------------------------------------ C31
\* what triggerEvent invokes on plugin object o
UnderTriggerEvent(o) == IF ObjectOf(o).onEvent THEN "onEvent" ELSE "none"

\* C31: triggerReplay invokes a target's onReplay when it is defined and
\* otherwise what triggerEvent invokes on it for the same event; triggerDLQ
\* invokes onDLQ only, and nothing on a target without onDLQ; triggerEvent
\* invokes onEvent only.  A target with nothing to invoke is skipped.
C31_HookSelection ==
  [][(Len(triggers') > Len(triggers) /\ initialized) =>
       LET new == triggers'[Len(triggers')]
       IN \A j \in DOMAIN new.targets :
            LET o == new.targets[j].o
            IN /\ new.call.hook = "onReplay" =>
                    new.targets[j].hook = IF ObjectOf(o).onReplay THEN "onReplay"
                                          ELSE UnderTriggerEvent(o)
               /\ new.call.hook = "onEvent" => new.targets[j].hook = UnderTriggerEvent(o)
               /\ new.call.hook = "onDLQ" =>
                    new.targets[j].hook = IF ObjectOf(o).onDLQ THEN "onDLQ" ELSE "none"
               /\ new.targets[j].st = "running" <=> new.targets[j].hook # "none"
               /\ new.targets[j].st = "skipped" <=> new.targets[j].hook = "none"]_vars

\* triggerReplay invoked onEvent on P1, which defines no onReplay, and
\* triggerDLQ invoked nothing on P1, which defines no onDLQ
C31_Witness ==
  /\ \E t \in DOMAIN triggers :
        /\ triggers[t].call.hook = "onReplay"
        /\ \E j \in DOMAIN triggers[t].targets :
              /\ triggers[t].targets[j].o = "P1"
              /\ triggers[t].targets[j].hook = "onEvent"
              /\ triggers[t].targets[j].st # "skipped"
  /\ \E t \in DOMAIN triggers :
        /\ triggers[t].call.hook = "onDLQ"
        /\ \E j \in DOMAIN triggers[t].targets :
              /\ triggers[t].targets[j].o = "P1"
              /\ triggers[t].targets[j].st = "skipped"

\* ------------------------------------------------------------------ C32
\* C32: a trigger call on an initialized manager never raises because of
\* plugin code: a hook that raises has the plugin's onError (if defined)
\* invoked, once, at that moment; onError is never invoked for a hook that
\* did not raise; neither the hook's nor onError's failure makes the call
\* raise.
C32_NoPluginError ==
  [][/\ (Len(triggers') > Len(triggers) /\ initialized) =>
          triggers'[Len(triggers')].st # "raised"
     /\ \A t \in DOMAIN triggers :
          /\ triggers[t].st = "running" => triggers'[t].st # "raised"
          /\ \A j \in DOMAIN triggers[t].targets :
               LET old == triggers[t].targets[j]
                   new == triggers'[t].targets[j]
               IN /\ (old.onError = "none" /\ new.onError = "invoked") =>
                       (old.st = "running" /\ new.st = "raised")
                  /\ (old.st = "running" /\ new.st = "raised") =>
                       (new.onError = "invoked" <=> ObjectOf(old.o).onError)
                  /\ old.onError = "invoked" => new.onError = "invoked"
                  /\ new.st = "ok" => new.onError = "none"]_vars

\* ------------------------------------------------------------------ C33
\* trigger call t was started or has moved in this step
Moved(t) == t \notin DOMAIN triggers \/ triggers'[t] # triggers[t]

\* C33: a dispatch started by context.emit is detached: when it starts, when
\* it raises at once because the manager is no longer initialized, and when
\* one of its hooks returns or raises, every other trigger call, the one
\* whose hook emitted included, is left as it was: the emitting hook goes on
\* running and nothing is raised into it or into its caller.
C33_EmitDetached ==
  [][\A t \in DOMAIN triggers' :
       (triggers'[t].call.by = "emit" /\ Moved(t)) =>
         /\ triggers'[t].call.parent \in DOMAIN triggers
         /\ \A u \in DOMAIN triggers : u # t => triggers'[u] = triggers[u]]_vars

\* the trigger call whose hook emitted has returned while a hook of the
\* emitted dispatch is still running
C33_Witness ==
  \E t \in DOMAIN triggers :
    /\ triggers[t].call.by = "emit"
    /\ triggers[t].st = "running"
    /\ triggers[triggers[t].call.parent].st = "returned"

\* ------------------------------------------------------------------ C34
\* the backend reported id present to the call: in the responses of a request
\* of a chunk holding it, or by an individual lookup that did not fail
ReportedPresent(id) ==
  /\ id \in bcd.present
  /\ \/ id \notin bcd.failing /\
          \E k \in DOMAIN bcd.outcomes :
            /\ id \in Range(bcd.batches[k])
            /\ \/ bcd.outcomes[k].kind = "fail"
               \/ id \in bcd.outcomes[k].unprocessed
     \/ \E k \in DOMAIN bcd.outcomes :
          /\ id \in Range(bcd.batches[k])
          /\ bcd.outcomes[k].kind # "fail"
          /\ id \notin bcd.outcomes[k].unprocessed

RECURSIVE Concat(_)
Concat(ss) == IF ss = <<>> THEN <<>> ELSE Head(ss) \o Concat(Tail(ss))

\* C34: batchCheckDuplicates never raises; it cuts the ids into consecutive
\* chunks of at most BATCH_SIZE ids, makes one batch request per chunk
\* (ceil(n / BATCH_SIZE), none for an empty array), and returns exactly the
\* ids of the input that the backend reported present, an id whose individual
\* lookup failed counting as not duplicate.
C34_BatchCheck ==
  /\ bcd.pc \in {"idle", "running", "returned"}
  /\ bcd.pc = "returned" =>
       /\ Concat(bcd.batches) = bcd.ids
       /\ \A k \in DOMAIN bcd.batches :
            /\ Len(bcd.batches[k]) >= 1
            /\ Len(bcd.batches[k]) <= BATCH_SIZE
            /\ k < Len(bcd.batches) => Len(bcd.batches[k]) = BATCH_SIZE
       /\ Len(bcd.outcomes) = (Len(bcd.ids) + BATCH_SIZE - 1) \div BATCH_SIZE
       /\ bcd.duplicates = {id \in Range(bcd.ids) : ReportedPresent(id)}

\* a call over the most chunks returned after a request failed and another
\* left keys unprocessed, with an id of the table missing from the result
\* because its lookup failed
C34_Witness ==
  /\ bcd.pc = "returned"
  /\ Len(bcd.outcomes) = MaxChunks
  /\ \E k \in DOMAIN bcd.outcomes : bcd.outcomes[k].kind = "fail"
  /\ \E k \in DOMAIN bcd.outcomes : bcd.outcomes[k].kind = "unprocessed"
  /\ bcd.duplicates # {}
  /\ \E id \in bcd.present : id \in Range(bcd.ids) /\ id \notin bcd.duplicates

\* ------------------------------------------------------------------ C35
\* a response whose status fails validateStatus and is neither 429 nor 5xx
ClientError(out) ==
  /\ out.kind = "response"
  /\ ~validateStatus(out.status)
  /\ ~(out.status = 429 \/ (out.status >= 500 /\ out.status < 600))

\* C35: a 4xx response other than 429 is not retried: no fetch follows it,
\* the request raises an HttpError carrying its status, and when it answers
\* the first attempt exactly one fetch is made.
C35_NoRetryOn4xx ==
  \A k \in DOMAIN http.history :
    ClientError(http.history[k]) =>
      /\ k = Len(http.history)
      /\ http.pc = "raised"
      /\ http.error = [kind |-> "HttpError", status |-> http.history[k].status]
      /\ k = 1 => http.fetches = 1

\* ------------------------------------------------------------------ C36
\* the attempt ended in a network error, a 429 or a 5xx
Transient(out) ==
  \/ out.kind = "network"
  \/ out.kind = "response" /\ (out.status = 429 \/ (out.status >= 500 /\ out.status < 600))

ListsHolding(i, n) ==
  Cardinality({l \in {"async", "inline", "worker"} : n \in Range(groups[l][i])})

\* C37: once the groups are computed, every registered plugin whose events
\* filter matches a unique event is in exactly one of that event's lists
\* (async, sync-inline, sync-worker), whatever mode it declares.
C37_OneList ==
  PhaseAStarted =>
    \A i \in Range(uniqueEvents) : \A n \in Range(plugins) :
      shouldHandleEvent(PluginOf(n), events[i].name) => ListsHolding(i, n) = 1

\* ------------------------------------------------------------------ C38
\* the number of invocations of a hook on plugin object o in trigger call t
Invocations(t, o) ==
  Cardinality({j \in DOMAIN triggers[t].targets :
                 /\ triggers[t].targets[j].o = o
                 /\ triggers[t].targets[j].st # "skipped"})

\* C38: in one trigger call, the selected hook of each target plugin is
\* invoked exactly once, whatever the pluginNames argument is.
C38_InvokedOnce ==
  \A t \in DOMAIN triggers :
    \A j \in DOMAIN triggers[t].targets :
      triggers[t].targets[j].hook # "none" =>
        Invocations(t, triggers[t].targets[j].o) = 1

\* ------------------------------------------------------------------ C39
\* positions i < j of the batch hold events with the same id, which the
\* table does not hold (the table only grows, so it did not hold it when
\* the call started either)
SameFreshId(i, j) ==
  /\ i < j
  /\ HasId(events[i])
  /\ events[i].id = events[j].id
  /\ events[i].id \notin table

\* C39: of two events of one batch with the same id that the table does not
\* hold, at most one is dispatched to plugins and at most one is handed to
\* storeEvent.
C39_OncePerId ==
  \A i \in DOMAIN events : \A j \in DOMAIN events :
    SameFreshId(i, j) =>
      /\ ~(Dispatched(i) /\ Dispatched(j))
      /\ ~(StoreCalled(i) /\ StoreCalled(j))

\* ------------------------------------------------------------------ C40
\* C40: every processBatch call that started returns or raises, also while
\* dispatches started by emit keep emitting.
C40_Terminates == (pc = "dedup") ~> (pc \in {"returned", "raised"})

\* processBatch returned, with events stored, while a detached dispatch that
\* was started from a detached dispatch is still running
C40_Witness ==
  /\ pc = "returned"
  /\ \E i \in Idx : store[i] = "ok"
  /\ detached = MaxDetached

====
